---- MODULE Spec2Model ----
(***************************************************************************)
(* A model of touchlog (src/,touchlog.c): one process invocation parses    *)
(* its options with getopt, resolves a date (today's or the -d argument),  *)
(* builds the target path and writes the log template with stdio.  The     *)
(* file system outlives the process, so the model runs the program up to   *)
(* MaxRuns times over the same file system.                                *)
(*                                                                         *)
(* C strings are TLA+ strings; a pointer is the empty set (NULL) or the    *)
(* singleton of the string it points to.                                   *)
(***************************************************************************)
EXTENDS Integers, Sequences, FiniteSets, TLC

(* ---------------------------- bounds ----------------------------------- *)
\* options getopt hands to main in one invocation
MaxOpts == 3
\* invocations of the program over the same file system
MaxRuns == 2

(* ------------------------ program constants ---------------------------- *)
CUSTOM_REGEX_FMT_GROUPS == 3
\* the status write_logfile returns when fopen fails
SIGABRT_STATUS == 134
HELP == "touchlog\nA tool to make a logfile for a date\n\nOptions:\n\t-h\t\tDisplay this help message\n\t-d [mmddyyyy]\tMake a logfile for a specific date\n\t-v\t\tDisplay version information\n\t[noop]\t\tMake a logfile for the current date\n\nPlease report any bugs to Sasank Vishnubhatla at sasank@vishnubhatlas.net"
VERSION == "0.0.2-alpha"
AUTHOR == "Sasank 'squatch$' Vishnubhatla"
RELEASE_DATE == "Tuesday, July 18, 2023"
FORMAT_ERROR == "Error: input is not in the format mmddyyyy\n"

(* --------------------------- environment ------------------------------- *)
NULL == {}
Deref(p) == CHOOSE s \in p : TRUE

\* arguments given to -d: exactly eight digits (a calendar date and a
\* non-calendar one), too short, eight characters with a non-digit, too long
\* (all digits, and with a leading non-digit), and no digits at all
DateInputs == {"07042025", "13992024", "0704202", "07a42025",
               "070420255", "x07042025", "today"}
\* arguments given to -f, and the directories that exist
DirArgs == {"logs", "/tmp", "nodir"}
Cwd == "/home/user"
ExistingDirs == {"/home/user/logs", "/tmp"}
\* the local time localtime() may report (struct tm: tm_mon is 0-based,
\* tm_year counts from 1900)
Clocks == {[tm_mday |-> 4, tm_mon |-> 6, tm_year |-> 125],
           [tm_mday |-> 31, tm_mon |-> 11, tm_year |-> 99]}
\* errno values of <errno.h> a failing call leaves behind
ENOENT == {2}
FopenErrnos == {13, 21}
ENOSPC == {28}

(* ------------------------- string functions ---------------------------- *)
Min(a, b) == IF a < b THEN a ELSE b
Char(s, i) == SubSeq(s, i, i)
IsDigit(c) == c \in {"0", "1", "2", "3", "4", "5", "6", "7", "8", "9"}
AllDigits(s) == \A i \in 1..Len(s) : IsDigit(Char(s, i))

\* regexec(&regex, raw, ...) for CUSTOM_REGEX_FMT "([0-9]{2})([0-9]{2})([0-9]{4})"
\* compiled REG_EXTENDED: the pattern has no ^ or $, so it matches when any
\* eight consecutive characters of raw are digits.  0 on a match, REG_NOMATCH
\* (1) otherwise.
Regexec(raw) ==
    IF \E so \in 1..(Len(raw) - 7) : AllDigits(SubSeq(raw, so, so + 7))
    THEN 0 ELSE 1

\* the rm_so fields regexec fills in groups[0 .. CUSTOM_REGEX_FMT_GROUPS-1] on a
\* match: the whole match (leftmost), then the first two capture groups
RegexGroups(raw) ==
    LET so == CHOOSE i \in 1..(Len(raw) - 7) :
                  /\ AllDigits(SubSeq(raw, i, i + 7))
                  /\ \A j \in 1..(i - 1) : ~AllDigits(SubSeq(raw, j, j + 7))
        all == <<so - 1, so - 1, so + 1, so + 3>>
    IN SubSeq(all, 1, CUSTOM_REGEX_FMT_GROUPS)

\* strncpy(dst, raw + off, n) followed by dst[n] = '\0'
Strncpy(raw, off, n) == SubSeq(raw, off + 1, Min(off + n, Len(raw)))

\* decimal digits of a natural number
Digit(d) == Char("0123456789", d + 1)
RECURSIVE Dec(_)
Dec(n) == IF n < 10 THEN Digit(n) ELSE Dec(n \div 10) \o Digit(n % 10)
Pad2(n) == IF n < 10 THEN "0" \o Digit(n) ELSE Dec(n)

\* strftime(buf, max, fmt, tm) for the three formats used: the text, or ""
\* (return value 0) when text and terminator do not fit in max bytes
Strftime(max, fmt, tm) ==
    LET text == CASE fmt = "%d" -> Pad2(tm.tm_mday)
                  [] fmt = "%m" -> Pad2(tm.tm_mon + 1)
                  [] fmt = "%Y" -> Dec(tm.tm_year + 1900)
    IN IF Len(text) + 1 <= max THEN text ELSE ""

\* realpath(optarg, path): the absolute path of an existing directory, or NULL
Realpath(arg) ==
    LET abs == IF Char(arg, 1) = "/" THEN arg ELSE Cwd \o "/" \o arg
    IN IF abs \in ExistingDirs THEN {abs} ELSE NULL

\* sprintf(fname, "%s.%s.%s.log", month, day, year); FnameDayFirst is the
\* same with day and month handed over in the wrong order
FnameDayFirst(m, d, y) == d \o "." \o m \o "." \o y \o ".log"
Fname(m, d, y) == m \o "." \o d \o "." \o y \o ".log"

\* LOG_FMT filled in with month, day, year
LogData(m, d, y) ==
    "> month: " \o m \o "\n> day: " \o d \o "\n> year: " \o y
    \o "\n\n|> events\n\n|> food\n\n|> emotions\n\n|> things to remember\n"

\* fprintf(nf, LOG_FMT, ...): the number of characters, or a negative value
FprintfResults(data) == {-1, Len(data)}

(* ------------------------------ state ---------------------------------- *)
VARIABLES
    pc,                 \* where main is
    nopts,              \* options getopt has returned so far
    temp_buf,           \* main: copy of the -d argument (pointer)
    path,               \* main: buffer realpath fills
    is_custom,
    is_path_specified,
    day, month, year,   \* the date parts handed to write_logfile
    ret,                \* main: status of the handler
    errno,
    logwrite_ret,       \* write_logfile: what fprintf returned (pointer-like)
    nf_path,            \* the stream fopen returned: its path (pointer)
    nf_buf,             \* the stream's unflushed data
    nf_state,           \* "none", "open", "flushed", "lost"
    stdout,             \* what the process has printed
    exit_status,        \* pointer-like: {} while running
    fs,                 \* the file system: path -> content
    calls,              \* history: the calls of this invocation, in order
    prev_fs,            \* history: the file system when the process started
    runs

vars == <<pc, nopts, temp_buf, path, is_custom, is_path_specified, day, month,
          year, ret, errno, logwrite_ret, nf_path, nf_buf, nf_state, stdout,
          exit_status, fs, calls, prev_fs, runs>>

EmptyFs == [p \in {} |-> ""]

\* the state of a process at the top of main
Start ==
    /\ pc = "getopt"
    /\ nopts = 0
    /\ temp_buf = NULL
    /\ path = ""
    /\ is_custom = FALSE
    /\ is_path_specified = FALSE
    /\ day = "" /\ month = "" /\ year = ""
    /\ ret = 0
    /\ errno = 0
    /\ logwrite_ret = {}
    /\ nf_path = NULL
    /\ nf_buf = ""
    /\ nf_state = "none"
    /\ stdout = <<>>
    /\ exit_status = {}
    /\ calls = <<>>

Init ==
    /\ Start
    /\ fs = EmptyFs
    /\ prev_fs = EmptyFs
    /\ runs = 1

Printf(text) == stdout' = Append(stdout, text)
Called(fns) == calls' = calls \o fns

\* the process ends with this status; stdio flushes the stream left open
Terminate(status) ==
    /\ pc' = "exited"
    /\ exit_status' = {status % 256}

(* -------------------- main: the getopt loop (206-245) ------------------ *)
GetoptGuard == pc = "getopt" /\ nopts < MaxOpts

\* case 'h'
GetoptH ==
    /\ GetoptGuard
    /\ nopts' = nopts + 1
    /\ Printf(HELP \o "\n")
    /\ Terminate(0)
    /\ UNCHANGED <<temp_buf, path, is_custom, is_path_specified, day, month,
                   year, ret, errno, logwrite_ret, nf_path, nf_buf, nf_state,
                   fs, calls, prev_fs, runs>>

\* case 'v'
GetoptV ==
    /\ GetoptGuard
    /\ nopts' = nopts + 1
    /\ Printf("touchlog\nVersion: " \o VERSION \o "\nAuthor : " \o AUTHOR
              \o "\nRelease date: " \o RELEASE_DATE \o "\n")
    /\ Terminate(0)
    /\ UNCHANGED <<temp_buf, path, is_custom, is_path_specified, day, month,
                   year, ret, errno, logwrite_ret, nf_path, nf_buf, nf_state,
                   fs, calls, prev_fs, runs>>

\* case 'd': keep a copy of optarg
GetoptD ==
    /\ GetoptGuard
    /\ \E optarg \in DateInputs :
          /\ temp_buf' = {optarg}
          /\ is_custom' = TRUE
    /\ nopts' = nopts + 1
    /\ UNCHANGED <<pc, path, is_path_specified, day, month, year, ret, errno,
                   logwrite_ret, nf_path, nf_buf, nf_state, stdout,
                   exit_status, fs, calls, prev_fs, runs>>

\* case 'f' where realpath fails, without the return of line 237
GetoptFNoReturn ==
    /\ GetoptGuard
    /\ \E optarg \in DirArgs :
          LET temp_res == Realpath(optarg) IN
          /\ is_path_specified' = (temp_res # NULL)
          /\ Called(<<"realpath">>)
          /\ IF temp_res # NULL
             THEN /\ path' = Deref(temp_res)
                  /\ Printf("Will write log file to " \o optarg \o "\n")
                  /\ UNCHANGED errno
             ELSE /\ stdout' = stdout \o
                        <<"Will write log file to " \o optarg \o "\n",
                          "error: " \o optarg \o " is not a valid existing path\n">>
                  /\ \E e \in ENOENT : errno' = e
                  /\ UNCHANGED path
    /\ nopts' = nopts + 1
    /\ UNCHANGED <<pc, exit_status, temp_buf, is_custom, day, month, year, ret,
                   logwrite_ret, nf_path, nf_buf, nf_state, fs, prev_fs, runs>>

\* case 'f': resolve optarg into path, or report it and return 1
GetoptF ==
    /\ GetoptGuard
    /\ \E optarg \in DirArgs :
          LET temp_res == Realpath(optarg) IN
          /\ is_path_specified' = (temp_res # NULL)
          /\ Called(<<"realpath">>)
          /\ IF temp_res # NULL
             THEN /\ path' = Deref(temp_res)
                  /\ Printf("Will write log file to " \o optarg \o "\n")
                  /\ UNCHANGED <<pc, exit_status, errno>>
             ELSE /\ stdout' = stdout \o
                        <<"Will write log file to " \o optarg \o "\n",
                          "error: " \o optarg \o " is not a valid existing path\n">>
                  /\ \E e \in ENOENT : errno' = e
                  /\ Terminate(1)
                  /\ UNCHANGED path
    /\ nopts' = nopts + 1
    /\ UNCHANGED <<temp_buf, is_custom, day, month, year, ret, logwrite_ret,
                   nf_path, nf_buf, nf_state, fs, prev_fs, runs>>

\* case '?' without the return of line 243
GetoptUnknownNoReturn ==
    /\ GetoptGuard
    /\ nopts' = nopts + 1
    /\ Printf("Missing argument\n")
    /\ UNCHANGED <<pc, exit_status, temp_buf, path, is_custom,
                   is_path_specified, day, month, year, ret, errno,
                   logwrite_ret, nf_path, nf_buf, nf_state, fs, calls,
                   prev_fs, runs>>

\* case '?': getopt met an unknown flag or a flag without its argument
GetoptUnknown ==
    /\ GetoptGuard
    /\ nopts' = nopts + 1
    /\ Printf("Missing argument\n")
    /\ Terminate(0)
    /\ UNCHANGED <<temp_buf, path, is_custom, is_path_specified, day, month,
                   year, ret, errno, logwrite_ret, nf_path, nf_buf, nf_state,
                   fs, calls, prev_fs, runs>>

\* getopt returns -1: the options are exhausted
GetoptEnd ==
    /\ pc = "getopt"
    /\ pc' = "dispatch"
    /\ UNCHANGED <<nopts, temp_buf, path, is_custom, is_path_specified, day,
                   month, year, ret, errno, logwrite_ret, nf_path, nf_buf,
                   nf_state, stdout, exit_status, fs, calls, prev_fs, runs>>

\* the path argument main hands to the handler, and the handler to
\* write_logfile
PathArg == IF is_path_specified THEN {path} ELSE NULL

(* ------------------------ handle_custom (101-148) ---------------------- *)
\* handle_custom that slices and writes whatever regexec said
HandleCustomNoCheck ==
    /\ pc = "dispatch"
    /\ is_custom
    /\ LET raw == Deref(temp_buf) IN
          /\ Called(<<"handle_custom", "write_logfile">>)
          /\ month' = Strncpy(raw, 0, 2)
          /\ day' = Strncpy(raw, 2, 2)
          /\ year' = Strncpy(raw, 4, 4)
          /\ pc' = "write_logfile"
          /\ UNCHANGED <<ret, stdout>>
    /\ UNCHANGED <<nopts, temp_buf, path, is_custom, is_path_specified, errno,
                   logwrite_ret, nf_path, nf_buf, nf_state, exit_status, fs,
                   prev_fs, runs>>

HandleCustom ==
    /\ pc = "dispatch"
    /\ is_custom
    /\ LET raw == Deref(temp_buf)
           s == Regexec(raw)
       IN IF s # 0
          THEN /\ Called(<<"handle_custom">>)
               /\ Printf(FORMAT_ERROR)
               /\ ret' = s
               /\ pc' = "finish"
               /\ UNCHANGED <<day, month, year>>
          ELSE IF \E i \in 1..CUSTOM_REGEX_FMT_GROUPS : RegexGroups(raw)[i] = -1
          THEN /\ Called(<<"handle_custom">>)
               /\ Printf(FORMAT_ERROR)
               /\ ret' = 1
               /\ pc' = "finish"
               /\ UNCHANGED <<day, month, year>>
          ELSE /\ Called(<<"handle_custom", "write_logfile">>)
               /\ month' = Strncpy(raw, 0, 2)
               /\ day' = Strncpy(raw, 2, 2)
               /\ year' = Strncpy(raw, 4, 4)
               /\ pc' = "write_logfile"
               /\ UNCHANGED <<ret, stdout>>
    /\ UNCHANGED <<nopts, temp_buf, path, is_custom, is_path_specified, errno,
                   logwrite_ret, nf_path, nf_buf, nf_state, exit_status, fs,
                   prev_fs, runs>>

(* ------------------------ handle_today (159-186) ----------------------- *)
HandleToday ==
    /\ pc = "dispatch"
    /\ ~is_custom
    /\ \E tm \in Clocks :
          LET d == Strftime(3, "%d", tm)
              m == Strftime(3, "%m", tm)
              y == Strftime(5, "%Y", tm)
          IN /\ day' = d /\ month' = m /\ year' = y
             /\ IF ~(Len(d) # 0 /\ Len(m) # 0 /\ Len(y) # 0)
                THEN /\ Called(<<"handle_today">>)
                     /\ ret' = 1
                     /\ pc' = "finish"
                ELSE /\ Called(<<"handle_today", "write_logfile">>)
                     /\ pc' = "write_logfile"
                     /\ UNCHANGED ret
    /\ UNCHANGED <<nopts, temp_buf, path, is_custom, is_path_specified, errno,
                   logwrite_ret, nf_path, nf_buf, nf_state, stdout,
                   exit_status, fs, prev_fs, runs>>

(* ------------------------ write_logfile (37-87) ------------------------ *)
\* fopen(_path, mode): "w+" creates the file or truncates it to length zero
FopenAppend(f, p) ==
    [q \in DOMAIN f \cup {p} |-> IF q = p /\ q \notin DOMAIN f THEN "" ELSE f[q]]
FopenW(f, p) ==
    [q \in DOMAIN f \cup {p} |-> IF q = p THEN "" ELSE f[q]]

WriteLogfile ==
    /\ pc = "write_logfile"
    /\ pc' = "finish"
    /\ LET fname == Fname(month, day, year)
           fname_ret == Len(fname)
           _path == IF PathArg # NULL
                    THEN Deref(PathArg) \o "/" \o fname
                    ELSE fname
           data == LogData(month, day, year)
       IN IF fname_ret = 0
          THEN /\ ret' = fname_ret
               /\ UNCHANGED <<errno, logwrite_ret, nf_path, nf_buf, nf_state,
                              stdout, fs, calls>>
          ELSE \/ \* fopen fails: nf == NULL
                  /\ \E e \in FopenErrnos : errno' = e
                  /\ Called(<<"fopen">>)
                  /\ ret' = SIGABRT_STATUS
                  /\ UNCHANGED <<logwrite_ret, nf_path, nf_buf, nf_state,
                                 stdout, fs>>
               \/ \* fopen succeeds, then fprintf
                  /\ fs' = FopenW(fs, _path)
                  /\ nf_path' = {_path}
                  /\ nf_state' = "open"
                  /\ Called(<<"fopen", "fprintf">>)
                  /\ \E r \in FprintfResults(data) :
                        /\ logwrite_ret' = {r}
                        /\ nf_buf' = IF r > 0 THEN data ELSE ""
                        /\ IF r < 0 THEN \E e \in ENOSPC : errno' = e
                                    ELSE UNCHANGED errno
                        /\ ret' = 0
                        /\ IF r = 0
                           THEN UNCHANGED stdout
                           ELSE Printf("Wrote new logfile for today's date to "
                                       \o _path \o "\n")
    /\ UNCHANGED <<nopts, temp_buf, path, is_custom, is_path_specified, day,
                   month, year, exit_status, prev_fs, runs>>

(* ------------------------ main: the end (272-283) ---------------------- *)
\* free(temp_buf); exit(errno) when ret is not 0, return ret otherwise.  Either
\* way the process ends, and stdio writes out what the stream still holds:
\* that write reaches the file or, on an output error, is lost.
MainFinish ==
    /\ pc = "finish"
    /\ Terminate(IF ret # 0 THEN errno ELSE ret)
    /\ IF nf_state = "open" /\ nf_buf = ""
       THEN /\ nf_state' = "flushed"
            /\ UNCHANGED <<fs, nf_buf>>
       ELSE IF nf_state = "open"
       THEN \E ok \in BOOLEAN :
               /\ nf_state' = IF ok THEN "flushed" ELSE "lost"
               /\ fs' = IF ok THEN [fs EXCEPT ![Deref(nf_path)] = @ \o nf_buf]
                              ELSE fs
               /\ nf_buf' = ""
       ELSE UNCHANGED <<nf_state, fs, nf_buf>>
    /\ UNCHANGED <<nopts, temp_buf, path, is_custom, is_path_specified, day,
                   month, year, ret, errno, logwrite_ret, nf_path, stdout,
                   calls, prev_fs, runs>>

(* ---------------------- the program is run again ----------------------- *)
Exec ==
    /\ pc = "exited"
    /\ runs < MaxRuns
    /\ runs' = runs + 1
    /\ prev_fs' = fs
    /\ pc' = "getopt"
    /\ nopts' = 0
    /\ temp_buf' = NULL
    /\ path' = ""
    /\ is_custom' = FALSE
    /\ is_path_specified' = FALSE
    /\ day' = "" /\ month' = "" /\ year' = ""
    /\ ret' = 0
    /\ errno' = 0
    /\ logwrite_ret' = {}
    /\ nf_path' = NULL
    /\ nf_buf' = ""
    /\ nf_state' = "none"
    /\ stdout' = <<>>
    /\ exit_status' = {}
    /\ calls' = <<>>
    /\ UNCHANGED fs

Next ==
    \/ GetoptH
    \/ GetoptV
    \/ GetoptD
    \/ GetoptF
    \/ GetoptUnknown
    \/ GetoptEnd
    \/ HandleCustom
    \/ HandleToday
    \/ WriteLogfile
    \/ MainFinish
    \/ Exec

Spec == Init /\ [][Next]_vars

(* ======================= properties of the program ===================== *)
InCalls(f) == \E i \in DOMAIN calls : calls[i] = f
Count(f) == Cardinality({i \in DOMAIN calls : calls[i] = f})
Printed(t) == \E i \in DOMAIN stdout : stdout[i] = t
Exited == pc = "exited"
\* exactly eight decimal digits
EightDigits(s) == Len(s) = 8 /\ AllDigits(s)
\* fprintf reported characters written and they reached the file
Written ==
    /\ nf_state = "flushed"
    /\ \E r \in logwrite_ret : r > 0
RealpathFailed ==
    \E a \in DirArgs : Printed("error: " \o a \o " is not a valid existing path\n")
UsageMessage ==
    \/ Printed(HELP \o "\n")
    \/ Printed("Missing argument\n")
    \/ \E i \in DOMAIN stdout : SubSeq(stdout[i], 1, 17) = "touchlog\nVersion:"
Confirmed ==
    \E i \in DOMAIN stdout : SubSeq(stdout[i], 1, 13) = "Wrote new log"

\* C1: once handle_custom has run on a -d argument that is not exactly eight
\* digits, the format error has been printed, write_logfile was never called
\* and the file system is as the process found it.
C1_FormatErrorNoFile ==
    (InCalls("handle_custom") /\ ~EightDigits(Deref(temp_buf)))
        => /\ Printed(FORMAT_ERROR)
           /\ ~InCalls("write_logfile")
           /\ fs = prev_fs

\* the name and the first three lines the -d argument raw stands for
C2_Name(raw) ==
    (IF is_path_specified THEN path \o "/" ELSE "")
    \o SubSeq(raw, 1, 2) \o "." \o SubSeq(raw, 3, 4) \o "." \o SubSeq(raw, 5, 8)
    \o ".log"
C2_Lines(raw) ==
    "> month: " \o SubSeq(raw, 1, 2) \o "\n> day: " \o SubSeq(raw, 3, 4)
    \o "\n> year: " \o SubSeq(raw, 5, 8) \o "\n"
C2_BodyCarries(raw) ==
    LET body == fs[Deref(nf_path)]
    IN /\ Len(body) >= Len(C2_Lines(raw))
       /\ SubSeq(body, 1, Len(C2_Lines(raw))) = C2_Lines(raw)

C3_OpenFailureExits134 ==
    (Exited /\ InCalls("fopen") /\ nf_path = NULL) => exit_status = {134}

\* C4: a process that got past option parsing either completed the write or
\* exited with a status that is not 0.
C4_WriteOrNonZero ==
    (Exited /\ (InCalls("handle_custom") \/ InCalls("handle_today")))
        => Written \/ exit_status # {0}

\* C5: once realpath has failed for a -f argument the process has ended, in the
\* getopt loop: no handler, write_logfile or fopen has run and no file was
\* created or changed, whatever options came before.
C5_BadDirAborts ==
    RealpathFailed
        => /\ Exited
           /\ exit_status # {0}
           /\ ~InCalls("handle_custom") /\ ~InCalls("handle_today")
           /\ ~InCalls("write_logfile") /\ ~InCalls("fopen")
           /\ fs = prev_fs
C5_Witness ==
    /\ RealpathFailed
    /\ is_custom /\ EightDigits(Deref(temp_buf))
    /\ Exited

\* C6: once the help text, the version text or the unknown-flag message has
\* been printed the process has ended with status 0, and it has created or
\* changed no file, whatever options came before.
C6_UsageExitsZero ==
    UsageMessage
        => /\ Exited
           /\ exit_status = {0}
           /\ ~InCalls("write_logfile") /\ ~InCalls("fopen")
           /\ fs = prev_fs
C6_Witness ==
    /\ Printed("Missing argument\n")
    /\ is_custom /\ EightDigits(Deref(temp_buf))
    /\ is_path_specified
    /\ Exited /\ exit_status = {0}

\* C7: a run that wrote its file leaves exactly one copy of the template in
\* it; if an earlier run had written the same file, the content is what it
\* was after that run.
C7_Overwrites ==
    (Exited /\ Written)
        => LET p == Deref(nf_path) IN
           /\ fs[p] = LogData(month, day, year)
           /\ (p \in DOMAIN prev_fs /\ prev_fs[p] # "") => fs[p] = prev_fs[p]
C7_Witness ==
    /\ Exited /\ Written /\ runs = 2
    /\ Deref(nf_path) \in DOMAIN prev_fs
    /\ prev_fs[Deref(nf_path)] # ""
    /\ fs[Deref(nf_path)] = prev_fs[Deref(nf_path)]

\* C8: whenever write_logfile is called, month and day are two decimal digits
\* and year is four.
C8_DatePartsWellFormed ==
    InCalls("write_logfile")
        => /\ Len(month) = 2 /\ AllDigits(month)
           /\ Len(day) = 2 /\ AllDigits(day)
           /\ Len(year) = 4 /\ AllDigits(year)

\* C9: a write that reports zero bytes makes write_logfile return a status
\* that is not 0 and print no confirmation; write_logfile returns 0 with the
\* confirmation printed only when the write reported bytes written.
C9_WriteFailureReported ==
    \A r \in logwrite_ret :
        /\ (r = 0) => (ret # 0 /\ ~Confirmed)
        /\ (ret = 0 /\ Confirmed) => r > 0

\* C10: an invocation calls fopen at most once and creates at most one file,
\* and the call comes after every option was parsed (after every realpath)
\* and after the date was resolved: the handler ran, on a -d argument regexec
\* matched or on today's date with no empty part.
C10_OneOpenAfterParse ==
    /\ Count("fopen") <= 1
    /\ Cardinality(DOMAIN fs \ DOMAIN prev_fs) <= 1
    /\ InCalls("fopen")
          => /\ pc \in {"finish", "exited"}
             /\ \A i, j \in DOMAIN calls :
                    (calls[i] = "fopen" /\ calls[j] # "fopen"
                        /\ calls[j] # "fprintf") => j < i
             /\ IF is_custom
                THEN InCalls("handle_custom") /\ Regexec(Deref(temp_buf)) = 0
                ELSE /\ InCalls("handle_today")
                     /\ day # "" /\ month # "" /\ year # ""
C10_Witness ==
    /\ Count("realpath") >= 2
    /\ is_custom
    /\ Count("fopen") = 1
    /\ nf_path # NULL
    /\ Exited

====
